---- MODULE Spec2Model ----
(***************************************************************************)
(* A model of the analytic core of the Power BI executive dashboard:       *)
(*   - AnomalyDetector (src/python/anomaly_detection/anomaly_detector.py)  *)
(*   - analyze_sales_trends (src/python/trend_analysis/trend_analyzer.py)  *)
(*                                                                         *)
(* A DataFrame is a record                                                 *)
(*   idx   the index labels, in row order                                  *)
(*   date  the Date column                                                 *)
(*   num   the numeric input columns, by name                              *)
(*   flag  the boolean columns, by name                                    *)
(*   aux   the names of the derived non-boolean columns                    *)
(*   count the anomaly_count column (<<>> when the table has none)         *)
(* A column name is the sequence of its '_'-separated words, so that the   *)
(* code's test  'is_anomaly' in col  is a test on the name itself.         *)
(* Values are integers; every comparison of the code is cross-multiplied   *)
(* so that it is decided exactly.                                          *)
(***************************************************************************)
EXTENDS Integers, Sequences, FiniteSets, TLC

\* one AnomalyDetector and its caller
VARIABLES contamination, fitted, op, data, numeric_columns, date_column, column,
          window, threshold, outcome, failed, result, summary, runs
\* one call of analyze_sales_trends (passed: the caller's table as it was
\* when passed, caller_df: the caller's table)
VARIABLES tpc, series, forecast_days, results, strategy_failed, passed, caller_df
\* two analyses, each on its own AnomalyDetector, running concurrently
VARIABLES cpc, batch, scaler, iso_forest, locals, out, overlap
\* one AnomalyDetector from its construction on, and the single-method calls
\* made on it one after the other
VARIABLES constructed, d_contamination, d_scaler, d_iso_forest, last_call, last_ret,
          earlier, ncalls
\* one call of a TrendAnalyzer method (par: its arguments besides the series,
\* loc: its local variables), and the same call on a transformed series
VARIABLES fn, arg, par, loc, ret, how, arg2, ret2
\* one PowerBIRefreshManager, the Power BI service it talks to, and one call of
\* refresh_multiple_datasets or of wait_for_refresh_completion
VARIABLES access_token, history, unlisted, rpc, refresh_config, position, r_results,
          max_wait_minutes, check_interval, elapsed, wait_ret, source, log

detVars == <<contamination, fitted, op, data, numeric_columns, date_column, column,
             window, threshold, outcome, failed, result, summary, runs>>
trendVars == <<tpc, series, forecast_days, results, strategy_failed, passed, caller_df>>
concVars == <<cpc, batch, scaler, iso_forest, locals, out, overlap>>
callVars == <<constructed, d_contamination, d_scaler, d_iso_forest, last_call, last_ret,
              earlier, ncalls>>
fnVars == <<fn, arg, par, loc, ret, how, arg2, ret2>>

refreshVars == <<access_token, history, unlisted, rpc, refresh_config, position,
                 r_results, max_wait_minutes, check_interval, elapsed, wait_ret,
                 source, log>>

vars == <<detVars, trendVars, concVars, callVars, fnVars, refreshVars>>

(***************************************************************************)
(* Bounds of the model.                                                    *)
(***************************************************************************)
MaxRows == 11
MaxRuns == 2
MaxWindow == 7
MaxSeriesLen == 14
MaxForecastDays == 2
MaxBatchRows == 3
MaxCalls == 2
MaxCallRows == 3
MaxTrendLen == 3
MaxTrendValue == 2
MaxFactor == 3
MaxYearSlack == 1
MaxArithLen == 10
MaxPeakLen == 4
MaxSeasonLen == 8
MaxLag == 3
MaxWaitMinutes == 1
MaxRequestSeconds == 10

(***************************************************************************)
(* Program constants.                                                      *)
(***************************************************************************)
NaN == -9999
DefaultContaminationPct == 5
ZscoreThreshold == 3
IqrMultiplierNum == 3
IqrMultiplierDen == 2
DefaultWindow == 7
DefaultMaThreshold == 2
ConsensusThreshold == 2
SeasonalPeriod == 7
RandomState == 42
NEstimators == 100
SlopeThresholdNum == 1
SlopeThresholdDen == 100
YearDays == 365
DefaultProminenceNum == 1
DefaultProminenceDen == 10
DefaultMaxLag == 365
SeasonalityHeightNum == 1
SeasonalityHeightDen == 2
DefaultMaxWaitMinutes == 60
DefaultCheckInterval == 30
SecondsPerMinute == 60

Null == [null |-> TRUE]
NumCols == {"A", "B"}
SpikeValue == 9

(***************************************************************************)
(* Column names.                                                           *)
(***************************************************************************)
IfFlagName == <<"is", "anomaly", "if">>
IfScoreName == <<"anomaly", "score", "if">>
ZscoreFlagName(c) == <<"is", "anomaly", "zscore", c>>
ZscoreName(c) == <<"zscore", c>>
IqrFlagName(c) == <<"is", "anomaly", "iqr", c>>
IqrLowerName(c) == <<"iqr", "lower", "bound", c>>
IqrUpperName(c) == <<"iqr", "upper", "bound", c>>
MaName(c) == <<"ma", c>>
StdName(c) == <<"std", c>>
DeviationName(c) == <<"deviation", c>>
MaFlagName(c) == <<"is", "anomaly", "ma", c>>
CountName == <<"anomaly", "count">>
ConsensusName == <<"is", "anomaly", "consensus">>
DateName == <<"Date">>

\* 'is_anomaly' in col
ContainsIsAnomaly(name) ==
    \E i \in 1..(Len(name) - 1) : name[i] = "is" /\ name[i + 1] = "anomaly"

NRows(df) == Len(df.idx)
Rows(df) == 1..NRows(df)

\* df.columns
Columns(df) ==
    {DateName} \cup {<<c>> : c \in DOMAIN df.num} \cup DOMAIN df.flag \cup df.aux

(***************************************************************************)
(* Arithmetic helpers.                                                     *)
(***************************************************************************)
RECURSIVE SumOver(_, _)
SumOver(col, I) ==
    IF I = {} THEN 0
    ELSE LET i == CHOOSE j \in I : TRUE IN col[i] + SumOver(col, I \ {i})

RECURSIVE SumSqOver(_, _)
SumSqOver(col, I) ==
    IF I = {} THEN 0
    ELSE LET i == CHOOSE j \in I : TRUE IN col[i] * col[i] + SumSqOver(col, I \ {i})

Present(col) == {i \in 1..Len(col) : col[i] # NaN}

AllFalse(n) == [i \in 1..n |-> FALSE]

\* the k-th smallest of the values of col at the positions P
KthSmallest(col, P, k) ==
    CHOOSE v \in {col[i] : i \in P} :
        /\ Cardinality({i \in P : col[i] < v}) < k
        /\ Cardinality({i \in P : col[i] <= v}) >= k

(***************************************************************************)
(* detect_zscore: |z| > threshold, z = (x - mean) / std (population std,   *)
(* missing values omitted).  With m values of sum S and sum of squares Q   *)
(* the variance is (m*Q - S*S) / m^2; a zero variance gives 0/0 = nan, and *)
(* nan > threshold is False.                                               *)
(***************************************************************************)
\* |z| >= threshold, a zero variance included
ZscoreFlagsInclusive(col, th) ==
    LET P == Present(col)
        m == Cardinality(P)
        S == SumOver(col, P)
        Q == SumSqOver(col, P)
        v == m * Q - S * S
    IN  [i \in 1..Len(col) |->
            /\ col[i] # NaN
            /\ (m * col[i] - S) * (m * col[i] - S) >= th * th * v]

ZscoreFlags(col, th) ==
    LET P == Present(col)
        m == Cardinality(P)
        S == SumOver(col, P)
        Q == SumSqOver(col, P)
        v == m * Q - S * S
    IN  [i \in 1..Len(col) |->
            /\ col[i] # NaN
            /\ v > 0
            /\ (m * col[i] - S) * (m * col[i] - S) > th * th * v]

ZscoreApplicable(col, i) ==
    LET P == Present(col)
        m == Cardinality(P)
        S == SumOver(col, P)
        Q == SumSqOver(col, P)
    IN  col[i] # NaN /\ m * Q - S * S > 0

(***************************************************************************)
(* detect_iqr: Series.quantile interpolates linearly between the order     *)
(* statistics of the present values.  Quantile4 is 4 times the quantile    *)
(* q/4.                                                                    *)
(***************************************************************************)
Quantile4(col, P, q) ==
    LET m == Cardinality(P)
        h == q * (m - 1)
        lo == h \div 4
        r == h % 4
        a == KthSmallest(col, P, lo + 1)
        b == IF r = 0 THEN a ELSE KthSmallest(col, P, lo + 2)
    IN  4 * a + r * (b - a)

IqrFlags(col, num, den) ==
    LET P == Present(col)
    IN  IF P = {} THEN AllFalse(Len(col))
        ELSE LET q1 == Quantile4(col, P, 1)
                 q3 == Quantile4(col, P, 3)
                 iqr == q3 - q1
                 lower == den * q1 - num * iqr
                 upper == den * q3 + num * iqr
             IN  [i \in 1..Len(col) |->
                     /\ col[i] # NaN
                     /\ \/ 4 * den * col[i] < lower
                        \/ 4 * den * col[i] > upper]

IqrApplicable(col, i) == col[i] # NaN

(***************************************************************************)
(* detect_moving_average_deviation: rolling(window).mean() and .std() are  *)
(* nan until the trailing window holds `window` present values; the std is *)
(* the sample std (ddof = 1).  |x - mean| > th * std, squared and cleared  *)
(* of denominators.                                                        *)
(***************************************************************************)
\* a window one row short (min_periods = window - 1)
WindowFullOffByOne(col, w, i) ==
    /\ w >= 1
    /\ i >= w - 1
    /\ \A j \in (i - w + 1)..i : j >= 1 => col[j] # NaN

WindowFull(col, w, i) ==
    /\ w >= 1
    /\ i >= w
    /\ \A j \in (i - w + 1)..i : col[j] # NaN

MaFlags(col, w, th) ==
    [i \in 1..Len(col) |->
        /\ WindowFull(col, w, i)
        /\ LET W == {j \in (i - w + 1)..i : j >= 1}
               S == SumOver(col, W)
               Q == SumSqOver(col, W)
               k == Cardinality(W)
           IN  (k - 1) * (k * col[i] - S) * (k * col[i] - S)
                   > th * th * k * (k * Q - S * S)]

(***************************************************************************)
(* DataFrame operations.                                                   *)
(***************************************************************************)
SetFlag(df, name, flags) ==
    [df EXCEPT !.flag = [c \in (DOMAIN df.flag) \cup {name} |->
                            IF c = name THEN flags ELSE df.flag[c]]]

AddAux(df, names) == [df EXCEPT !.aux = @ \cup names]

Permute(s, perm) == [k \in 1..Len(perm) |-> s[perm[k]]]

\* df.sort_values(date_column): ascending, the dates being distinct
SortValues(df) ==
    LET n == NRows(df)
        perm == [k \in 1..n |->
                    CHOOSE i \in 1..n :
                        Cardinality({j \in 1..n : df.date[j] < df.date[i]}) = k - 1]
    IN  [idx |-> Permute(df.idx, perm),
         date |-> Permute(df.date, perm),
         num |-> [c \in DOMAIN df.num |-> Permute(df.num[c], perm)],
         flag |-> [c \in DOMAIN df.flag |-> Permute(df.flag[c], perm)],
         aux |-> df.aux,
         count |-> IF df.count = <<>> THEN <<>> ELSE Permute(df.count, perm)]

(***************************************************************************)
(* detect_isolation_forest.  The scaler and the forest are scikit-learn's: *)
(* fit_transform rejects a matrix with no row or no column, fit rejects a  *)
(* contamination outside (0, 0.5].  The fitted forest scores every row, a  *)
(* function of the row's features; fit sets offset_ to the percentile      *)
(* 100 * contamination of the scores (linear interpolation) and predict    *)
(* returns -1 for the rows scoring below it.  The scores are the library's *)
(* and are not computed here: `flagged` is any set of positions those two  *)
(* facts allow.                                                            *)
(***************************************************************************)
ValidContamination(pct) == pct > 0 /\ pct <= 50

NanToNum(x) == IF x = NaN THEN 0 ELSE x

FeatureMatrix(df, features) ==
    [i \in Rows(df) |-> [k \in 1..Len(features) |-> NanToNum(df.num[features[k]][i])]]

\* rows of equal features score equally
SameFeatures(X, F) == \A i \in F : \A j \in DOMAIN X : X[j] = X[i] => j \in F

\* the rows strictly below the percentile p of n scores are at most
\* floor(p * (n - 1) / 100) + 1, and none when n = 1
MaxIsolated(n, contam) == IF n <= 1 THEN 0 ELSE (contam * (n - 1)) \div 100 + 1

ForestChoices(df, features, contam) ==
    {F \in SUBSET Rows(df) :
        /\ Cardinality(F) <= MaxIsolated(NRows(df), contam)
        /\ SameFeatures(FeatureMatrix(df, features), F)}

IsolationForestFails(df, features, contam) ==
    \/ NRows(df) = 0
    \/ Len(features) = 0
    \/ ~ValidContamination(contam)

DetectIsolationForest(df, features, flagged) ==
    AddAux(SetFlag(df, IfFlagName, [i \in Rows(df) |-> i \in flagged]), {IfScoreName})

DetectZscore(df, c) ==
    AddAux(SetFlag(df, ZscoreFlagName(c), ZscoreFlags(df.num[c], ZscoreThreshold)),
           {ZscoreName(c)})

DetectIqr(df, c) ==
    AddAux(SetFlag(df, IqrFlagName(c),
                   IqrFlags(df.num[c], IqrMultiplierNum, IqrMultiplierDen)),
           {IqrLowerName(c), IqrUpperName(c)})

DetectMovingAverageDeviation(df, c, w, th) ==
    AddAux(SetFlag(df, MaFlagName(c), MaFlags(df.num[c], w, th)),
           {MaName(c), StdName(c), DeviationName(c)})

(***************************************************************************)
(* detect_all.                                                             *)
(***************************************************************************)
\* a consensus of one vote
IsConsensusAtLeastOne(count) == count >= 1

IsConsensus(count) == count >= ConsensusThreshold

\* the body of  for col in numeric_columns
ColumnStep(df, c, date) ==
    LET d1 == DetectZscore(df, c)
        d2 == DetectIqr(d1, c)
    IN  IF date # "None"
        THEN DetectMovingAverageDeviation(d2, c, DefaultWindow, DefaultMaThreshold)
        ELSE d2

RECURSIVE ColumnLoop(_, _, _, _)
ColumnLoop(df, cols, k, date) ==
    IF k > Len(cols) THEN df
    ELSE ColumnLoop(ColumnStep(df, cols[k], date), cols, k + 1, date)

AnomalyColumns(df) == {c \in Columns(df) : ContainsIsAnomaly(c)}

VoteCount(df, i) == Cardinality({c \in AnomalyColumns(df) : df.flag[c][i]})

Consensus(df) ==
    LET count == [i \in Rows(df) |-> VoteCount(df, i)]
        d1 == AddAux([df EXCEPT !.count = count], {CountName})
    IN  SetFlag(d1, ConsensusName, [i \in Rows(df) |-> IsConsensus(count[i])])

\* lines 165-169
CopyAndSort(tbl, date) == IF date # "None" THEN SortValues(tbl) ELSE tbl

DetectAll(tbl, cols, date, contam, flagged) ==
    LET df0 == CopyAndSort(tbl, date)
    IN  IF IsolationForestFails(df0, cols, contam)
        THEN [ok |-> FALSE, failed |-> "if", df |-> Null]
        ELSE [ok |-> TRUE, failed |-> "none",
              df |-> Consensus(ColumnLoop(DetectIsolationForest(df0, cols, flagged),
                                          cols, 1, date))]

(***************************************************************************)
(* get_anomaly_summary.                                                    *)
(***************************************************************************)
TrueCount(flags) == Cardinality({i \in 1..Len(flags) : flags[i]})

GetAnomalySummary(df) ==
    [total_records |-> NRows(df),
     method_counts |-> [c \in AnomalyColumns(df) |-> TrueCount(df.flag[c])],
     consensus_anomalies |->
         IF ConsensusName \in Columns(df) THEN TrueCount(df.flag[ConsensusName]) ELSE 0]

(***************************************************************************)
(* The tables the caller passes in: n rows, numeric columns A (level 0)    *)
(* and B (alternating 0, 1), the first row, the last row or both special:  *)
(* each cell of a special row is normal (N), a spike (S) or missing (M).   *)
(* Dates are ascending or descending.                                      *)
(***************************************************************************)
CellPairs == {<<"N", "N">>, <<"S", "N">>, <<"N", "S">>, <<"S", "S">>,
              <<"S", "M">>, <<"M", "M">>}

Cell(kind, base) ==
    CASE kind = "N" -> base
      [] kind = "S" -> SpikeValue
      [] kind = "M" -> NaN

MkTable(n, special, ka, kb, ord) ==
    [idx |-> [i \in 1..n |-> i],
     date |-> [i \in 1..n |-> IF ord = "asc" THEN i ELSE n + 1 - i],
     num |-> [c \in NumCols |->
                [i \in 1..n |->
                    IF c = "A" THEN (IF i \in special THEN Cell(ka, 0) ELSE 0)
                    ELSE (IF i \in special THEN Cell(kb, i % 2) ELSE i % 2)]],
     flag |-> <<>>,
     aux |-> {},
     count |-> <<>>]

InputTables ==
    UNION {{MkTable(n, special, k[1], k[2], ord) :
                special \in {{}, {1}, {n}, {1, n}} \cap SUBSET (1..n),
                k \in CellPairs, ord \in {"asc", "desc"}} :
           n \in 0..MaxRows}

ColumnLists == {<<>>, <<"A">>, <<"B">>, <<"A", "B">>}
DateColumns == {"None", "Date"}
ContaminationPcts == {DefaultContaminationPct, 60}
MaThresholds == {1, DefaultMaThreshold}

(***************************************************************************)
(* The state machine: one detector, its caller.                            *)
(***************************************************************************)
DetectorInit(pcts) ==
    /\ contamination \in pcts
    /\ fitted = <<>>
    /\ op = "none"
    /\ data = Null
    /\ numeric_columns = <<>>
    /\ date_column = "None"
    /\ column = "A"
    /\ window = DefaultWindow
    /\ threshold = DefaultMaThreshold
    /\ outcome = "none"
    /\ failed = "none"
    /\ result = Null
    /\ summary = Null
    /\ runs = 0

\* no analyze_sales_trends call is in progress
TrendIdle ==
    /\ tpc = "idle"
    /\ series = <<>>
    /\ forecast_days = 0
    /\ results = <<>>
    /\ strategy_failed = {}
    /\ passed = Null
    /\ caller_df = Null

\* no concurrent analyses
ConcIdle ==
    /\ cpc = <<>>
    /\ batch = <<>>
    /\ scaler = <<>>
    /\ iso_forest = <<>>
    /\ locals = <<>>
    /\ out = <<>>
    /\ overlap = <<>>

\* no detector under a sequence of single-method calls
CallIdle ==
    /\ constructed = FALSE
    /\ d_contamination = DefaultContaminationPct
    /\ d_scaler = Null
    /\ d_iso_forest = Null
    /\ last_call = Null
    /\ last_ret = Null
    /\ earlier = <<>>
    /\ ncalls = 0

\* no TrendAnalyzer method under call
FnIdle ==
    /\ fn = "none"
    /\ arg = <<>>
    /\ par = Null
    /\ loc = Null
    /\ ret = Null
    /\ how = Null
    /\ arg2 = <<>>
    /\ ret2 = Null

\* no PowerBIRefreshManager
RefreshIdle ==
    /\ access_token = "None"
    /\ history = <<>>
    /\ unlisted = {}
    /\ rpc = "idle"
    /\ refresh_config = <<>>
    /\ position = 0
    /\ r_results = <<>>
    /\ max_wait_minutes = DefaultMaxWaitMinutes
    /\ check_interval = DefaultCheckInterval
    /\ elapsed = 0
    /\ wait_ret = "None"
    /\ source = <<>>
    /\ log = <<>>

Init == DetectorInit(ContaminationPcts) /\ TrendIdle /\ ConcIdle /\ CallIdle /\ FnIdle /\ RefreshIdle

\* the forest is seeded (random_state=42): the same matrix in the same order
\* is isolated the same way
ForestKey(df, cols) == <<cols, df.idx>>

DoDetectAll(tbl, cols, date) ==
    LET df0 == CopyAndSort(tbl, date)
        key == ForestKey(df0, cols)
    IN  \E flagged \in IF IsolationForestFails(df0, cols, contamination) THEN {{}}
                        ELSE IF key \in DOMAIN fitted THEN {fitted[key]}
                        ELSE ForestChoices(df0, cols, contamination) :
            /\ LET r == DetectAll(tbl, cols, date, contamination, flagged)
               IN  /\ op' = "detect_all"
                   /\ data' = tbl
                   /\ numeric_columns' = cols
                   /\ date_column' = date
                   /\ outcome' = IF r.ok THEN "returned" ELSE "raised"
                   /\ failed' = r.failed
                   /\ result' = r.df
                   /\ fitted' = IF r.ok
                                 THEN [k \in (DOMAIN fitted) \cup {key} |->
                                          IF k = key THEN flagged ELSE fitted[k]]
                                 ELSE fitted
                   /\ summary' = Null
                   /\ runs' = runs + 1
                   /\ UNCHANGED <<contamination, column, window, threshold,
                                  trendVars, concVars, callVars, fnVars, refreshVars>>

\* result = detector.detect_all(df, numeric_cols, date_column=...)
CallDetectAll ==
    /\ op = "none"
    /\ \E tbl \in InputTables, cols \in ColumnLists, date \in DateColumns :
           DoDetectAll(tbl, cols, date)

\* detect_all on the table an earlier detect_all returned
CallDetectAllAgain ==
    /\ op = "detect_all"
    /\ outcome = "returned"
    /\ runs < MaxRuns
    /\ \E cols \in ColumnLists : DoDetectAll(result, cols, date_column)

\* summary = detector.get_anomaly_summary(result)
CallGetAnomalySummary ==
    /\ op = "detect_all"
    /\ outcome = "returned"
    /\ summary = Null
    /\ summary' = GetAnomalySummary(result)
    /\ UNCHANGED <<contamination, fitted, op, data, numeric_columns, date_column,
                   column, window, threshold, outcome, failed, result, runs,
                   trendVars, concVars, callVars, fnVars, refreshVars>>

\* detector.detect_moving_average_deviation(df, column, window, threshold)
CallDetectMovingAverageDeviation ==
    /\ op = "none"
    /\ \E tbl \in InputTables, c \in NumCols, w \in 1..MaxWindow, th \in MaThresholds :
           /\ op' = "detect_ma"
           /\ data' = tbl
           /\ column' = c
           /\ window' = w
           /\ threshold' = th
           /\ outcome' = "returned"
           /\ result' = DetectMovingAverageDeviation(tbl, c, w, th)
           /\ runs' = runs + 1
           /\ UNCHANGED <<contamination, fitted, numeric_columns, date_column,
                          failed, summary, trendVars, concVars, callVars, fnVars, refreshVars>>

Next ==
    \/ CallDetectAll
    \/ CallDetectAllAgain
    \/ CallGetAnomalySummary
    \/ CallDetectMovingAverageDeviation

Spec == Init /\ [][Next]_vars

(***************************************************************************)
(* analyze_sales_trends, one step per call it makes.  The values of the    *)
(* report are not computed here; what is modelled is which calls raise,    *)
(* which catch, and what the report then holds.                            *)
(*   - LinearRegression.fit rejects an empty y and a y with a missing      *)
(*     value; predict rejects an empty future_X (steps <= 0).              *)
(*   - adfuller, ARIMA, ExponentialSmoothing and seasonal_decompose are    *)
(*     statsmodels': whether a fit succeeds is the library's (`ok`),       *)
(*     except that the seasonal models need two full cycles and no         *)
(*     missing value.                                                      *)
(***************************************************************************)
Strategies == {"forecast_linear", "forecast_arima", "forecast_exponential"}

HasMissing(sr) == \E i \in 1..Len(sr) : sr[i] = NaN

\* lr.fit(X, y)
FitFails(sr) == Len(sr) = 0 \/ HasMissing(sr)

\* lr.predict(future_X), future_X = arange(n, n + steps)
PredictFails(steps) == steps <= 0

\* two full seasonal cycles, no missing value
SeasonalModelFails(sr, period) == Len(sr) < 2 * period \/ HasMissing(sr)

\* one complete cycle is enough
DecomposeFailsOneCycle(sr, period) == Len(sr) < period \/ HasMissing(sr)

\* seasonal_decompose(series, period=period): x must have 2 complete cycles
\* (2 * period observations) and no missing value
DecomposeFails(sr, period) == Len(sr) < 2 * period \/ HasMissing(sr)

\* the series of a call: level or rising, a missing value at the end or not
MkSeries(n, slope, missing) ==
    [i \in 1..n |-> IF missing /\ i = n THEN NaN ELSE 100 + slope * i]

InputSeries ==
    {MkSeries(n, slope, missing) :
        n \in 0..MaxSeriesLen, slope \in {0, 10}, missing \in BOOLEAN}

Put(res, key, value) ==
    [k \in (DOMAIN res) \cup {key} |-> IF k = key THEN value ELSE res[k]]

TrendStep(from, to, key, value) ==
    /\ tpc = from
    /\ tpc' = to
    /\ results' = Put(results, key, value)
    /\ UNCHANGED <<series, forecast_days, strategy_failed, passed, caller_df,
                   detVars, concVars, callVars, fnVars, refreshVars>>

TrendRaise(from, strategies) ==
    /\ tpc = from
    /\ tpc' = "raised"
    /\ strategy_failed' = strategy_failed \cup strategies
    /\ UNCHANGED <<series, forecast_days, results, passed, caller_df,
                   detVars, concVars, callVars, fnVars, refreshVars>>

\* a call whose own try/except turns a failure into None
TrendCaught(from, to, key, fails, strategies) ==
    /\ tpc = from
    /\ \E ok \in BOOLEAN :
           /\ fails => ~ok
           /\ tpc' = to
           /\ results' = Put(results, key, IF ok THEN "computed" ELSE "None")
           /\ strategy_failed' = IF ok THEN strategy_failed
                                  ELSE strategy_failed \cup strategies
    /\ UNCHANGED <<series, forecast_days, passed, caller_df,
                   detVars, concVars, callVars, fnVars, refreshVars>>

\* the caller's table: the values of sr, dated day by day in ascending or
\* descending order, the Date column text or datetime
DateTypes == {"str", "datetime"}

MkSalesTable(sr, type, ord) ==
    LET n == Len(sr)
        day(i) == IF ord = "asc" THEN i ELSE n + 1 - i
    IN  [Date |-> [i \in 1..n |-> [type |-> type, day |-> day(i)]],
         TotalSales |-> [i \in 1..n |-> sr[day(i)]]]

SalesTables ==
    {MkSalesTable(sr, type, ord) :
        sr \in InputSeries, type \in DateTypes, ord \in {"asc", "desc"}}

\* pd.to_datetime(column)
ToDatetime(col) == [i \in 1..Len(col) |-> [type |-> "datetime", day |-> col[i].day]]

\* line 343: df[date_column] = pd.to_datetime(df[date_column]), on the table
\* passed in
AssignDate(df) == [df EXCEPT !.Date = ToDatetime(df.Date)]

\* line 344: df.sort_values(date_column), a new table
SortByDate(df) ==
    LET n == Len(df.Date)
        perm == [k \in 1..n |->
                    CHOOSE i \in 1..n :
                        Cardinality({j \in 1..n : df.Date[j].day < df.Date[i].day}) = k - 1]
    IN  [Date |-> Permute(df.Date, perm), TotalSales |-> Permute(df.TotalSales, perm)]

\* line 347: df.set_index(date_column)[value_column]
SeriesOf(df) == df.TotalSales

\* analyze_sales_trends(df, forecast_days=...), lines 343-350
AnalyzeSalesTrends ==
    /\ tpc = "idle"
    /\ \E df \in SalesTables, days \in 0..MaxForecastDays :
           /\ passed' = df
           /\ caller_df' = AssignDate(df)
           /\ series' = SeriesOf(SortByDate(AssignDate(df)))
           /\ forecast_days' = days
    /\ tpc' = "trend"
    /\ UNCHANGED <<results, strategy_failed, detVars, concVars, callVars, fnVars, refreshVars>>

\* line 354
DetectTrendDirection ==
    IF FitFails(series) THEN TrendRaise("trend", {})
    ELSE TrendStep("trend", "seasonality", "trend", "computed")

\* line 355
DetectSeasonality == TrendStep("seasonality", "growth", "seasonality", "computed")

\* line 356
CalculateGrowthMetrics == TrendStep("growth", "peaks", "growth_metrics", "computed")

\* line 357
IdentifyPeaksAndTroughs == TrendStep("peaks", "stationarity", "peaks_troughs", "computed")

\* a test_stationarity without its try/except
TestStationarityUncaught ==
    \/ TrendStep("stationarity", "linear", "stationarity", "computed")
    \/ TrendRaise("stationarity", {})

\* line 358
TestStationarity == TrendCaught("stationarity", "linear", "stationarity", FALSE, {})

\* line 362: outside every try
ForecastLinearTrend ==
    IF FitFails(series) \/ PredictFails(forecast_days)
    THEN TrendRaise("linear", {"forecast_linear"})
    ELSE TrendStep("linear", "arima", "forecast_linear", "computed")

\* line 365: forecast_arima catches its own failures, so the except of
\* line 369 is never entered
ForecastArima ==
    TrendCaught("arima", "exponential", "forecast_arima", FALSE, {"forecast_arima"})

\* lines 366-368
ForecastExponentialSmoothing ==
    TrendCaught("exponential", "decomposition", "forecast_exponential",
                SeasonalModelFails(series, SeasonalPeriod), {"forecast_exponential"})

\* lines 375-380
SeasonalDecomposition ==
    TrendCaught("decomposition", "returned", "decomposition",
                DecomposeFails(series, SeasonalPeriod), {})

NextTrend ==
    \/ AnalyzeSalesTrends
    \/ DetectTrendDirection
    \/ DetectSeasonality
    \/ CalculateGrowthMetrics
    \/ IdentifyPeaksAndTroughs
    \/ TestStationarity
    \/ ForecastLinearTrend
    \/ ForecastArima
    \/ ForecastExponentialSmoothing
    \/ SeasonalDecomposition

InitTrend ==
    DetectorInit({DefaultContaminationPct}) /\ TrendIdle /\ ConcIdle /\ CallIdle /\ FnIdle /\ RefreshIdle

SpecTrend == InitTrend /\ [][NextTrend]_vars

(***************************************************************************)
(* Two analyses run detect_isolation_forest concurrently, analysis k on    *)
(* its own detector: scaler[k] and iso_forest[k] are that detector's       *)
(* self.scaler and self.iso_forest, locals[k] the call's local variables.  *)
(* StandardScaler keeps the statistics of the batch it was fitted on; a    *)
(* scaled value (x - mean) / std is kept as the pair (n*x - S, n*Q - S*S). *)
(* The fitted forest is a function of the matrix it was fitted on and of   *)
(* its parameters (the seed is fixed), and what it returns is a function   *)
(* of the forest and of the matrix it is applied to: both are kept as      *)
(* terms.                                                                  *)
(***************************************************************************)
Analyses == {1, 2}

Batches ==
    UNION {{MkTable(n, {n}, k[1], k[2], "asc").num[c] : k \in CellPairs, c \in NumCols} :
           n \in 2..MaxBatchRows}

Prepare(b) == [i \in 1..Len(b) |-> NanToNum(b[i])]

ScalerFitOn(X) ==
    [n |-> Len(X), S |-> SumOver(X, 1..Len(X)), Q |-> SumSqOver(X, 1..Len(X))]

ScalerTransformWith(sc, X) ==
    [i \in 1..Len(X) |-> [num |-> sc.n * X[i] - sc.S, var |-> sc.n * sc.Q - sc.S * sc.S]]

ForestFitOn(Xs, contam) ==
    [trained_on |-> Xs, contamination |-> contam,
     random_state |-> RandomState, n_estimators |-> NEstimators]

ForestPredict(forest, Xs) == [predict |-> forest, X |-> Xs]

ForestScoreSamples(forest, Xs) == [score_samples |-> forest, X |-> Xs]

\* self.scaler of analysis k
ScalerOf(k) == scaler[k]

\* one forest for every detector
SharedForest(k) == iso_forest[1]

\* self.iso_forest of analysis k
ForestOf(k) == iso_forest[k]

\* the call when nothing else runs
AloneDetectIsolationForest(b, contam) ==
    LET X == Prepare(b)
        Xs == ScalerTransformWith(ScalerFitOn(X), X)
        forest == ForestFitOn(Xs, contam)
    IN  [is_anomaly_if |-> ForestPredict(forest, Xs),
         anomaly_score_if |-> ForestScoreSamples(forest, Xs)]

InitConc ==
    /\ DetectorInit({DefaultContaminationPct})
    /\ TrendIdle
    /\ CallIdle
    /\ FnIdle /\ RefreshIdle
    /\ cpc = [k \in Analyses |-> "start"]
    /\ batch \in [Analyses -> Batches]
    /\ scaler = [k \in Analyses |-> Null]
    /\ iso_forest = [k \in Analyses |-> Null]
    /\ locals = [k \in Analyses |-> Null]
    /\ out = [k \in Analyses |-> Null]
    /\ overlap = [k \in Analyses |-> FALSE]

InProgress(k) == cpc[k] \notin {"start", "done"}

\* a step of analysis k; overlap[k] records that the other analysis was
\* in progress when it was taken
ConcStep(k, from, to) ==
    /\ cpc[k] = from
    /\ cpc' = [cpc EXCEPT ![k] = to]
    /\ overlap' = [overlap EXCEPT ![k] = @ \/ \E j \in Analyses \ {k} : InProgress(j)]
    /\ UNCHANGED <<batch, detVars, trendVars, callVars, fnVars, refreshVars>>

\* lines 51-57
PrepareFeatures(k) ==
    /\ ConcStep(k, "start", "prepared")
    /\ locals' = [locals EXCEPT ![k] = [X |-> Prepare(batch[k])]]
    /\ UNCHANGED <<scaler, iso_forest, out>>

\* line 60, fit
ScalerFit(k) ==
    /\ ConcStep(k, "prepared", "scaler_fit")
    /\ scaler' = [scaler EXCEPT ![k] = ScalerFitOn(locals[k].X)]
    /\ UNCHANGED <<iso_forest, locals, out>>

\* line 60, transform
ScalerTransform(k) ==
    /\ ConcStep(k, "scaler_fit", "scaled")
    /\ locals' = [locals EXCEPT ![k] =
                      [X |-> locals[k].X,
                       X_scaled |-> ScalerTransformWith(ScalerOf(k), locals[k].X)]]
    /\ UNCHANGED <<scaler, iso_forest, out>>

\* line 63, fit
ForestFit(k) ==
    /\ ConcStep(k, "scaled", "forest_fit")
    /\ iso_forest' = [iso_forest EXCEPT ![k] =
                          ForestFitOn(locals[k].X_scaled, contamination)]
    /\ UNCHANGED <<scaler, locals, out>>

\* line 63, predict
ForestFitPredict(k) ==
    /\ ConcStep(k, "forest_fit", "predicted")
    /\ locals' = [locals EXCEPT ![k] =
                      [X |-> locals[k].X, X_scaled |-> locals[k].X_scaled,
                       predictions |-> ForestPredict(ForestOf(k), locals[k].X_scaled)]]
    /\ UNCHANGED <<scaler, iso_forest, out>>

\* line 64
ScoreSamples(k) ==
    /\ ConcStep(k, "predicted", "scored")
    /\ locals' = [locals EXCEPT ![k] =
                      [X |-> locals[k].X, X_scaled |-> locals[k].X_scaled,
                       predictions |-> locals[k].predictions,
                       anomaly_scores |->
                           ForestScoreSamples(ForestOf(k), locals[k].X_scaled)]]
    /\ UNCHANGED <<scaler, iso_forest, out>>

\* lines 67-70
ReturnFlags(k) ==
    /\ ConcStep(k, "scored", "done")
    /\ out' = [out EXCEPT ![k] = [is_anomaly_if |-> locals[k].predictions,
                                  anomaly_score_if |-> locals[k].anomaly_scores]]
    /\ UNCHANGED <<scaler, iso_forest, locals>>

NextConc ==
    \E k \in Analyses :
        \/ PrepareFeatures(k)
        \/ ScalerFit(k)
        \/ ScalerTransform(k)
        \/ ForestFit(k)
        \/ ForestFitPredict(k)
        \/ ScoreSamples(k)
        \/ ReturnFlags(k)

SpecConc == InitConc /\ [][NextConc]_vars

(***************************************************************************)
(* One AnomalyDetector from its construction on, and the single-method     *)
(* calls made on it one after the other.  The instance holds               *)
(* self.contamination, self.scaler and self.iso_forest; a call is one      *)
(* step.  What a call gives back is [kind, error, value]: kind "returned"  *)
(* with the value, or kind "raised" with the class of the exception.  The  *)
(* only exceptions are the libraries': the module defines and raises none. *)
(*   - StandardScaler.fit_transform rejects a matrix without rows;         *)
(*   - IsolationForest.fit rejects a contamination outside (0, 0.5];       *)
(*   - rolling(window) rejects a negative window and accepts 0 (every      *)
(*     mean and std is then nan).                                          *)
(***************************************************************************)
CallContaminationPcts == {DefaultContaminationPct, 70, 150}

CallTables ==
    UNION {{MkTable(n, special, k[1], k[2], "asc") :
                special \in {{}, {n}} \cap SUBSET (1..n), k \in CellPairs} :
           n \in 0..MaxCallRows}

\* the tables detect_isolation_forest is called on, features = ['A']
ForestTables == {tbl \in CallTables : \A i \in Rows(tbl) : i < NRows(tbl) => tbl.num["A"][i] = 0}

CallWindows == (-1)..MaxCallRows

Ret(v) == [kind |-> "returned", error |-> "", value |-> v]

Raise(e) == [kind |-> "raised", error |-> e, value |-> Null]

\* a scaler that, once fitted, is not fitted again
ScalerReused(sc, X) == IF sc = Null THEN ScalerFitOn(X) ELSE sc

\* self.scaler after self.scaler.fit_transform(X): fitted on X, whatever it
\* was fitted on before
ScalerAfterFitTransform(sc, X) == ScalerFitOn(X)

\* detect_isolation_forest on the instance (sc, forest, contam): what it
\* gives back, and self.scaler and self.iso_forest after it
DetectIsolationForestOn(sc, forest, b, contam) ==
    LET X == Prepare(b)
    IN  IF Len(X) = 0
        THEN [ret |-> Raise("ValueError"), scaler |-> sc, iso_forest |-> forest]
        ELSE LET sc1 == ScalerAfterFitTransform(sc, X)
                 Xs == ScalerTransformWith(sc1, X)
                 f1 == ForestFitOn(Xs, contam)
             IN  IF ~ValidContamination(contam)
                 THEN [ret |-> Raise("ValueError"), scaler |-> sc1,
                       iso_forest |-> forest]
                 ELSE [ret |-> Ret([is_anomaly_if |-> ForestPredict(f1, Xs),
                                    anomaly_score_if |-> ForestScoreSamples(f1, Xs)]),
                       scaler |-> sc1, iso_forest |-> f1]

\* detect_moving_average_deviation with any window
MovingAverageDeviationResult(tbl, c, w, th) ==
    IF w < 0 THEN Raise("ValueError")
    ELSE Ret(DetectMovingAverageDeviation(tbl, c, w, th))

InitCalls == DetectorInit({DefaultContaminationPct}) /\ TrendIdle /\ ConcIdle
                /\ CallIdle /\ FnIdle /\ RefreshIdle

\* detector = AnomalyDetector(contamination=...): nothing is checked
Construct ==
    /\ ~constructed
    /\ constructed' = TRUE
    /\ \E pct \in CallContaminationPcts : d_contamination' = pct
    /\ UNCHANGED <<d_scaler, d_iso_forest, last_call, last_ret, earlier, ncalls,
                   detVars, trendVars, concVars, fnVars, refreshVars>>

\* the results of the detect_isolation_forest calls before the last call,
\* by batch
EarlierAfter(call, r) ==
    IF call # Null /\ call.name = "detect_isolation_forest" /\ r.kind = "returned"
    THEN Put(earlier, call.data.num[call.column], r.value)
    ELSE earlier

SeqCall(call, r, sc, forest) ==
    /\ constructed
    /\ ncalls < MaxCalls
    /\ ncalls' = ncalls + 1
    /\ earlier' = EarlierAfter(last_call, last_ret)
    /\ last_call' = call
    /\ last_ret' = r
    /\ d_scaler' = sc
    /\ d_iso_forest' = forest
    /\ UNCHANGED <<constructed, d_contamination, detVars, trendVars, concVars, fnVars, refreshVars>>

\* detector.detect_isolation_forest(tbl, ['A'])
SeqDetectIsolationForest ==
    \E tbl \in ForestTables :
        LET r == DetectIsolationForestOn(d_scaler, d_iso_forest, tbl.num["A"],
                                         d_contamination)
        IN  SeqCall([name |-> "detect_isolation_forest", data |-> tbl, column |-> "A",
                     window |-> 0],
                    r.ret, r.scaler, r.iso_forest)

\* detector.detect_zscore(tbl, c), tbl one of tables
DetectZscoreOn(tables) ==
    \E tbl \in tables, c \in NumCols :
        SeqCall([name |-> "detect_zscore", data |-> tbl, column |-> c, window |-> 0],
                Ret(DetectZscore(tbl, c)), d_scaler, d_iso_forest)

\* detector.detect_iqr(tbl, c), tbl one of tables
DetectIqrOn(tables) ==
    \E tbl \in tables, c \in NumCols :
        SeqCall([name |-> "detect_iqr", data |-> tbl, column |-> c, window |-> 0],
                Ret(DetectIqr(tbl, c)), d_scaler, d_iso_forest)

SeqDetectZscore == DetectZscoreOn(CallTables)

SeqDetectIqr == DetectIqrOn(CallTables)

\* detector.detect_moving_average_deviation(tbl, c, window=w)
SeqDetectMovingAverageDeviation ==
    \E tbl \in CallTables, c \in NumCols, w \in CallWindows :
        SeqCall([name |-> "detect_moving_average_deviation", data |-> tbl,
                 column |-> c, window |-> w],
                MovingAverageDeviationResult(tbl, c, w, DefaultMaThreshold),
                d_scaler, d_iso_forest)

NextCalls ==
    \/ Construct
    \/ SeqDetectIsolationForest
    \/ SeqDetectZscore
    \/ SeqDetectIqr
    \/ SeqDetectMovingAverageDeviation

SpecCalls == InitCalls /\ [][NextCalls]_vars

(***************************************************************************)
(* detect_zscore and detect_iqr as functions of the table: one call on a   *)
(* detector with the default contamination, on any table of InputTables.   *)
(***************************************************************************)
InitStat ==
    /\ DetectorInit({DefaultContaminationPct}) /\ TrendIdle /\ ConcIdle /\ FnIdle /\ RefreshIdle
    /\ constructed = TRUE
    /\ d_contamination = DefaultContaminationPct
    /\ d_scaler = Null
    /\ d_iso_forest = Null
    /\ last_call = Null
    /\ last_ret = Null
    /\ earlier = <<>>
    /\ ncalls = 0

StatDetectZscore == ncalls = 0 /\ DetectZscoreOn(InputTables)

StatDetectIqr == ncalls = 0 /\ DetectIqrOn(InputTables)

NextStat ==
    \/ StatDetectZscore
    \/ StatDetectIqr

SpecStat == InitStat /\ [][NextStat]_vars

(***************************************************************************)
(* TrendAnalyzer.detect_trend_direction and calculate_growth_metrics as    *)
(* functions of the series.  A value v of a series of TrendSeries stands   *)
(* for v / ValueUnit, so that slopes around 0.01 are integers; the slope   *)
(* of the least-squares line over x = 0..n-1 is kept as the exact fraction *)
(* SlopeNum / (SlopeDen * ValueUnit), where the library rounds.  A number  *)
(* a growth metric holds is kept by its sign: [kind, sign] with kind       *)
(* "None", "nan", "inf" or "number".                                       *)
(***************************************************************************)
ValueUnit == SlopeThresholdDen

TrendValues == (-MaxTrendValue)..MaxTrendValue

TrendSeries ==
    UNION {[1..n -> TrendValues] : n \in 0..MaxTrendLen} \cup {<<NaN>>, <<0, NaN>>}

Factors == 1..MaxFactor

\* n * sum(x * y) - sum(x) * sum(y), x = arange(n)
SlopeNum(y) ==
    LET n == Len(y)
        I == 1..n
    IN  n * SumOver([i \in I |-> (i - 1) * y[i]], I)
            - SumOver([i \in I |-> i - 1], I) * SumOver(y, I)

\* n * sum(x * x) - sum(x) ^ 2, x = arange(n)
SlopeDen(y) ==
    LET n == Len(y)
        I == 1..n
    IN  n * SumSqOver([i \in I |-> i - 1], I)
            - SumOver([i \in I |-> i - 1], I) * SumOver([i \in I |-> i - 1], I)

\* Upward from 0.01 on
DirectionInclusive(num, den) ==
    IF den > 0 /\ num * SlopeThresholdDen >= SlopeThresholdNum * den * ValueUnit
    THEN "Upward"
    ELSE IF den > 0 /\ num * SlopeThresholdDen < -(SlopeThresholdNum * den * ValueUnit)
    THEN "Downward"
    ELSE "Stable"

\* Downward for every negative slope
DirectionLopsided(num, den) ==
    IF den > 0 /\ num * SlopeThresholdDen > SlopeThresholdNum * den * ValueUnit
    THEN "Upward"
    ELSE IF den > 0 /\ num < 0
    THEN "Downward"
    ELSE "Stable"

\* lines 63-68, the slope being num / (den * ValueUnit), and 0 for a single
\* point (den = 0)
Direction(num, den) ==
    IF den > 0 /\ num * SlopeThresholdDen > SlopeThresholdNum * den * ValueUnit
    THEN "Upward"
    ELSE IF den > 0 /\ num * SlopeThresholdDen < -(SlopeThresholdNum * den * ValueUnit)
    THEN "Downward"
    ELSE "Stable"

\* detect_trend_direction(series): lr.fit raises on an empty series and on
\* a missing value
TrendDirectionResult(sr) ==
    IF FitFails(sr) THEN Raise("ValueError")
    ELSE Ret([direction |-> Direction(SlopeNum(sr), SlopeDen(sr)),
              slope_num |-> SlopeNum(sr),
              slope_den |-> SlopeDen(sr) * ValueUnit])

Scaled(sr, k) == [i \in 1..Len(sr) |-> IF sr[i] = NaN THEN NaN ELSE k * sr[i]]

Negated(sr) == [i \in 1..Len(sr) |-> IF sr[i] = NaN THEN NaN ELSE -sr[i]]

Sign(x) == IF x > 0 THEN 1 ELSE IF x < 0 THEN -1 ELSE 0

None == [kind |-> "None", sign |-> 0]

Number(s) == [kind |-> "number", sign |-> s]

\* a / b in numpy: a zero divisor gives inf, -inf or nan
Divide(a, b) ==
    IF b # 0 THEN Number(Sign(a) * Sign(b))
    ELSE IF a = 0 THEN [kind |-> "nan", sign |-> 0]
    ELSE [kind |-> "inf", sign |-> Sign(a)]

\* lines 251-254
YoyGrowth(sr) ==
    LET n == Len(sr)
    IN  IF n >= YearDays
        THEN Divide(sr[n] - sr[n - YearDays + 1], sr[n - YearDays + 1])
        ELSE None

\* lines 257-261: ((last / first) ** (1 / years) - 1) * 100, years = n / 365;
\* a negative base has a power only for the exponent 1 (n = 365)
Cagr(sr) ==
    LET n == Len(sr)
        last == sr[n]
        first == sr[1]
    IN  IF n < YearDays THEN None
        ELSE IF first = 0
        THEN (IF last = 0 THEN [kind |-> "nan", sign |-> 0]
              ELSE IF last < 0 /\ n = YearDays THEN [kind |-> "inf", sign |-> -1]
              ELSE [kind |-> "inf", sign |-> 1])
        ELSE IF Sign(last) * Sign(first) < 0
        THEN (IF n = YearDays THEN Number(-1) ELSE [kind |-> "nan", sign |-> 0])
        ELSE IF last = 0 THEN Number(-1)
        ELSE Number(Sign(last * Sign(last) - first * Sign(first)))

\* calculate_growth_metrics(series): iloc[-1] raises on an empty series
GrowthMetricsResult(sr) ==
    IF Len(sr) = 0 THEN Raise("IndexError")
    ELSE Ret([yoy_growth |-> YoyGrowth(sr), cagr |-> Cagr(sr),
              current_value |-> sr[Len(sr)], start_value |-> sr[1]])

\* the series growth is computed on: n days, from `first`, by `step` a day
GrowthLens == (0..MaxYearSlack) \cup ((YearDays - MaxYearSlack)..(YearDays + MaxYearSlack))

GrowthSeries ==
    {[i \in 1..n |-> first + step * (i - 1)] :
        n \in GrowthLens, first \in {-2 * YearDays, -1, 0, 1, 2 * YearDays},
        step \in (-MaxYearSlack)..MaxYearSlack}

(***************************************************************************)
(* forecast_linear_trend: the least-squares line over x = 0..n-1, read at  *)
(* x = n..n+steps-1.  The line at x is mean(y) + slope * (x - mean(x)),    *)
(* kept as the exact fraction PredictNum / PredictDen; one point gives the *)
(* level line through it.                                                  *)
(***************************************************************************)
PredictDen(y) == IF SlopeDen(y) = 0 THEN Len(y) ELSE 2 * Len(y) * SlopeDen(y)

PredictNum(y, x) ==
    LET n == Len(y)
        S == SumOver(y, 1..n)
    IN  IF SlopeDen(y) = 0 THEN S
        ELSE 2 * SlopeDen(y) * S + SlopeNum(y) * n * (2 * x - (n - 1))

\* np.arange(len(series), len(series) + steps)
FutureX(n, steps) == [k \in 1..steps |-> n + k - 1]

\* forecast_linear_trend(series, steps): fit raises on an empty series and
\* on a missing value, predict on an empty future_X
ForecastLinearTrendResult(sr, steps) ==
    IF FitFails(sr) \/ PredictFails(steps) THEN Raise("ValueError")
    ELSE LET fx == FutureX(Len(sr), steps)
         IN  Ret([forecast |-> [k \in 1..Len(fx) |->
                                   [num |-> PredictNum(sr, fx[k]), den |-> PredictDen(sr)]],
                  model |-> "Linear Trend"])

\* `first`, first + d, ..., n values
Arithmetic(n, first, d) == [i \in 1..n |-> first + d * (i - 1)]

\* the series a forecast is made from
ForecastSeries ==
    TrendSeries \cup {Arithmetic(n, 100, d) : n \in 0..MaxArithLen, d \in {-10, 0, 10}}

(***************************************************************************)
(* identify_peaks_and_troughs.  scipy's find_peaks(x, prominence=p):       *)
(*   - a peak is the middle sample of a plateau that is higher than the    *)
(*     sample on either side of it (the first and the last sample are      *)
(*     never peaks);                                                       *)
(*   - its prominence is its height above the higher of the two lowest     *)
(*     points between it and the nearest higher sample on each side (or    *)
(*     the end of the signal);                                             *)
(*   - the peaks of prominence >= p are kept.                              *)
(* A prominence p is the fraction num / den, in the unit of the values.    *)
(***************************************************************************)
MinOf(S) == CHOOSE v \in S : \A w \in S : v <= w

MaxOf(S) == CHOOSE v \in S : \A w \in S : v >= w

\* the positions of the local maxima of x
LocalMaxima(x) ==
    {m \in 1..Len(x) :
        \E l \in 2..(Len(x) - 1) : \E r \in l..(Len(x) - 1) :
            /\ \A j \in l..r : x[j] = x[l]
            /\ x[l - 1] < x[l]
            /\ x[r + 1] < x[r]
            /\ m = ((l - 1) + (r - 1)) \div 2 + 1}

\* the prominence of the peak at position p
PeakProminence(x, p) ==
    LET left == MinOf({i \in 1..p : \A j \in i..p : x[j] <= x[p]})
        right == MaxOf({i \in p..Len(x) : \A j \in p..i : x[j] <= x[p]})
        left_min == MinOf({x[j] : j \in left..p})
        right_min == MinOf({x[j] : j \in p..right})
    IN  x[p] - MaxOf({left_min, right_min})

\* the 0-based indices of a set of positions, ascending
RECURSIVE IndexList(_)
IndexList(P) ==
    IF P = {} THEN <<>>
    ELSE LET m == MaxOf(P) IN Append(IndexList(P \ {m}), m - 1)

\* find_peaks(x, prominence = num / den)
FindPeaks(x, num, den) ==
    IndexList({p \in LocalMaxima(x) : PeakProminence(x, p) * den >= num})

\* prominence = 0.1, in the unit of the values
DefaultProminence == [num |-> DefaultProminenceNum * ValueUnit, den |-> DefaultProminenceDen]

\* a tenth of the value range of the series
RangeProminence(sr) ==
    [num |-> IF Len(sr) = 0 THEN 0
             ELSE MaxOf({sr[i] : i \in 1..Len(sr)}) - MinOf({sr[i] : i \in 1..Len(sr)}),
     den |-> 10]

\* the prominence find_peaks is given
ProminenceUsed(sr, prominence) == prominence

\* identify_peaks_and_troughs(series, prominence)
IdentifyPeaksAndTroughsResult(sr, prominence) ==
    LET pr == ProminenceUsed(sr, prominence)
        peaks == FindPeaks(sr, pr.num, pr.den)
        troughs == FindPeaks(Negated(sr), pr.num, pr.den)
    IN  Ret([peak_indices |-> peaks,
             peak_values |-> [k \in 1..Len(peaks) |-> sr[peaks[k] + 1]],
             trough_indices |-> troughs,
             trough_values |-> [k \in 1..Len(troughs) |-> sr[troughs[k] + 1]],
             peak_count |-> Len(peaks),
             trough_count |-> Len(troughs)])

\* the series peaks are looked for in: values 0, 0.05, 0.1 and 2
PeakLevels == {0, 5, 10, 200}

PeakSeries == UNION {[1..n -> PeakLevels] : n \in 0..MaxPeakLen}

\* the prominences a caller gives
GivenProminences == {[num |-> ValueUnit, den |-> 1], [num |-> ValueUnit, den |-> 100]}

(***************************************************************************)
(* detect_seasonality.  series.autocorr(lag) is the Pearson correlation of *)
(* the pairs (series[i], series[i - lag]); with m pairs it is              *)
(*   c / sqrt(a * b),  c = m*sum(u*v) - sum(u)*sum(v),                     *)
(*   a = m*sum(u*u) - sum(u)^2,  b = m*sum(v*v) - sum(v)^2,                *)
(* and nan for fewer than 2 pairs or a constant side.  A correlation is    *)
(* kept as [nan, c, a, b] and compared exactly, where the library rounds.  *)
(* find_peaks(autocorr, height=0.5) keeps the local maxima of height at    *)
(* least 0.5; nan compares false with everything.                          *)
(***************************************************************************)
Min2(a, b) == IF a <= b THEN a ELSE b

\* range(1, min(max_lag, len(series)))
LagsExamined(n, max_lag) == [i \in 1..(Min2(max_lag, n) - 1) |-> i]

\* series.autocorr(lag=lag), 1 <= lag < len(series)
Autocorr(sr, lag) ==
    LET n == Len(sr)
        I == (lag + 1)..n
        m == n - lag
        u == sr
        v == [i \in 1..n |-> IF i > lag THEN sr[i - lag] ELSE 0]
        uv == [i \in 1..n |-> u[i] * v[i]]
        c == m * SumOver(uv, I) - SumOver(u, I) * SumOver(v, I)
        a == m * SumSqOver(u, I) - SumOver(u, I) * SumOver(u, I)
        b == m * SumSqOver(v, I) - SumOver(v, I) * SumOver(v, I)
    IN  [nan |-> m < 2 \/ a = 0 \/ b = 0, c |-> c, a |-> a, b |-> b]

\* r1 < r2
CorrLess(r1, r2) ==
    /\ ~r1.nan
    /\ ~r2.nan
    /\ Sign(r1.c) * r1.c * r1.c * r2.a * r2.b < Sign(r2.c) * r2.c * r2.c * r1.a * r1.b

\* r1 == r2
CorrEqual(r1, r2) ==
    /\ ~r1.nan
    /\ ~r2.nan
    /\ Sign(r1.c) * r1.c * r1.c * r2.a * r2.b = Sign(r2.c) * r2.c * r2.c * r1.a * r1.b

\* r >= num / den
CorrAtLeast(r, num, den) ==
    /\ ~r.nan
    /\ r.c > 0
    /\ den * den * r.c * r.c >= num * num * r.a * r.b

\* the positions of the local maxima of a list of correlations
CorrLocalMaxima(ac) ==
    {m \in 1..Len(ac) :
        \E l \in 2..(Len(ac) - 1) : \E r \in l..(Len(ac) - 1) :
            /\ \A j \in l..r : CorrEqual(ac[j], ac[l])
            /\ CorrLess(ac[l - 1], ac[l])
            /\ CorrLess(ac[r + 1], ac[r])
            /\ m = ((l - 1) + (r - 1)) \div 2 + 1}

\* find_peaks(autocorr, height=0.5)[0]
FindPeaksHeight(ac) ==
    IndexList({p \in CorrLocalMaxima(ac) :
                  CorrAtLeast(ac[p], SeasonalityHeightNum, SeasonalityHeightDen)})

NoPeriod == [kind |-> "None", value |-> 0]

Period(v) == [kind |-> "int", value |-> v]

\* the last peak + 1
PrimaryPeriodLastPeak(peaks) == Period(peaks[Len(peaks)] + 1)

\* line 132
PrimaryPeriod(peaks) == Period(peaks[1] + 1)

\* detect_seasonality(series, max_lag): what it returns, and its autocorr
DetectSeasonalityResult(sr, max_lag) ==
    LET lags == LagsExamined(Len(sr), max_lag)
        autocorr == [k \in 1..Len(lags) |-> Autocorr(sr, lags[k])]
        peaks == FindPeaksHeight(autocorr)
    IN  [loc |-> [lags |-> lags, autocorr |-> autocorr, peaks |-> peaks],
         ret |-> Ret([has_seasonality |-> Len(peaks) > 0,
                      primary_period |-> IF Len(peaks) > 0 THEN PrimaryPeriod(peaks)
                                         ELSE NoPeriod,
                      peak_lags |-> [k \in 1..Len(peaks) |-> peaks[k] + 1]])]

\* the series seasonality is looked for in
SeasonSeries == UNION {[1..n -> {0, 1}] : n \in 0..MaxSeasonLen}

MaxLags == (0..MaxLag) \cup {DefaultMaxLag}

InitFn == DetectorInit({DefaultContaminationPct}) /\ TrendIdle /\ ConcIdle
              /\ CallIdle /\ FnIdle /\ RefreshIdle

\* analyzer.detect_trend_direction(series)
CallDetectTrendDirection ==
    /\ fn = "none"
    /\ \E sr \in TrendSeries :
           /\ arg' = sr
           /\ ret' = TrendDirectionResult(sr)
    /\ fn' = "detect_trend_direction"
    /\ UNCHANGED <<par, loc, how, arg2, ret2, detVars, trendVars, concVars, callVars,
                   refreshVars>>

\* the same call on the series scaled by a positive constant
CallDetectTrendDirectionScaled ==
    /\ fn = "detect_trend_direction"
    /\ how = Null
    /\ \E k \in Factors :
           /\ how' = [kind |-> "scaled", factor |-> k]
           /\ arg2' = Scaled(arg, k)
           /\ ret2' = TrendDirectionResult(Scaled(arg, k))
    /\ UNCHANGED <<fn, arg, par, loc, ret, detVars, trendVars, concVars, callVars,
                   refreshVars>>

\* the same call on the negated series
CallDetectTrendDirectionNegated ==
    /\ fn = "detect_trend_direction"
    /\ how = Null
    /\ how' = [kind |-> "negated", factor |-> -1]
    /\ arg2' = Negated(arg)
    /\ ret2' = TrendDirectionResult(Negated(arg))
    /\ UNCHANGED <<fn, arg, par, loc, ret, detVars, trendVars, concVars, callVars,
                   refreshVars>>

\* analyzer.calculate_growth_metrics(series)
CallCalculateGrowthMetrics ==
    /\ fn = "none"
    /\ \E sr \in GrowthSeries :
           /\ arg' = sr
           /\ ret' = GrowthMetricsResult(sr)
    /\ fn' = "calculate_growth_metrics"
    /\ UNCHANGED <<par, loc, how, arg2, ret2, detVars, trendVars, concVars, callVars,
                   refreshVars>>

\* analyzer.forecast_linear_trend(series, steps=steps)
CallForecastLinearTrend ==
    /\ fn = "none"
    /\ \E sr \in ForecastSeries, steps \in 0..MaxForecastDays :
           /\ arg' = sr
           /\ par' = [steps |-> steps]
           /\ ret' = ForecastLinearTrendResult(sr, steps)
    /\ fn' = "forecast_linear_trend"
    /\ UNCHANGED <<loc, how, arg2, ret2, detVars, trendVars, concVars, callVars,
                   refreshVars>>

\* analyzer.identify_peaks_and_troughs(series) and
\* analyzer.identify_peaks_and_troughs(series, prominence=...)
CallIdentifyPeaksAndTroughs ==
    /\ fn = "none"
    /\ \E sr \in PeakSeries, given \in BOOLEAN :
           \E pr \in IF given THEN GivenProminences ELSE {DefaultProminence} :
               /\ arg' = sr
               /\ par' = [given |-> given, prominence |-> pr]
               /\ ret' = IdentifyPeaksAndTroughsResult(sr, pr)
    /\ fn' = "identify_peaks_and_troughs"
    /\ UNCHANGED <<loc, how, arg2, ret2, detVars, trendVars, concVars, callVars,
                   refreshVars>>

\* analyzer.detect_seasonality(series, max_lag=max_lag)
CallDetectSeasonality ==
    /\ fn = "none"
    /\ \E sr \in SeasonSeries, max_lag \in MaxLags :
           LET r == DetectSeasonalityResult(sr, max_lag)
           IN  /\ arg' = sr
               /\ par' = [max_lag |-> max_lag]
               /\ loc' = r.loc
               /\ ret' = r.ret
    /\ fn' = "detect_seasonality"
    /\ UNCHANGED <<how, arg2, ret2, detVars, trendVars, concVars, callVars,
                   refreshVars>>

NextFn ==
    \/ CallDetectSeasonality
    \/ CallForecastLinearTrend
    \/ CallIdentifyPeaksAndTroughs
    \/ CallDetectTrendDirection
    \/ CallDetectTrendDirectionScaled
    \/ CallDetectTrendDirectionNegated
    \/ CallCalculateGrowthMetrics

SpecFn == InitFn /\ [][NextFn]_vars

(***************************************************************************)
(* PowerBIRefreshManager and the Power BI service.                         *)
(*   history[d]   the refresh history of dataset d as the service lists    *)
(*                it, latest first; an entry is [id, status], the status   *)
(*                "Unknown" while the refresh runs                         *)
(*   unlisted     the datasets with an accepted refresh request that the   *)
(*                history does not list yet (the request is accepted       *)
(*                asynchronously)                                          *)
(*   elapsed      time.time() - start_time, in seconds                     *)
(*   source, log  what the manager did, for the properties: the id of the  *)
(*                entry a recorded status was read from, and the calls of  *)
(*                trigger_dataset_refresh and wait_for_refresh_completion  *)
(*                in order                                                 *)
(* A request either fails (requests.exceptions.RequestException, which     *)
(* every method but get_access_token catches) or is answered.  The         *)
(* service's progress is modelled for the dataset being waited for; the    *)
(* manager reads no other.                                                 *)
(***************************************************************************)
Datasets == {"sales", "finance"}

TerminalStatuses == {"Completed", "Failed", "Cancelled"}

EarlierRefresh == 0

NewRefresh == 1

NoEntry == -1

\* the history of a dataset before the call: empty, or an earlier refresh
InitialHistories ==
    {<<>>} \cup {<<[id |-> EarlierRefresh, status |-> s]>> : s \in {"Completed", "Failed"}}

\* refresh_config: distinct datasets, each with or without 'wait', no 'name'
RefreshConfigs ==
    {cfg \in UNION {[1..n -> [dataset_id : Datasets, wait : BOOLEAN]] :
                        n \in 0..Cardinality(Datasets)} :
        \A i, j \in 1..Len(cfg) : cfg[i].dataset_id = cfg[j].dataset_id => i = j}

\* self.access_token after get_headers: the token request is made only when
\* there is no token, and sets it when answered
TokenAfter(token_ok) ==
    IF access_token = "None" /\ token_ok THEN "token" ELSE access_token

\* get_headers returned (get_access_token did not raise)
HaveHeaders(token_ok) == access_token # "None" \/ token_ok

\* get_refresh_history(workspace_id, dataset_id, top=1)
GetRefreshHistory(d, token_ok, get_ok) ==
    IF HaveHeaders(token_ok) /\ get_ok /\ Len(history[d]) > 0
    THEN <<history[d][1]>>
    ELSE <<>>

\* a loop that gives up at max_wait_seconds sharp
TimedOutInclusive(el, minutes) == el >= minutes * SecondsPerMinute

\* line 178
TimedOut(el, minutes) == el > minutes * SecondsPerMinute

\* one pass of the loop of wait_for_refresh_completion, lines 176-192, on
\* the answer resp of get_refresh_history
WaitLoopBody(resp) ==
    IF TimedOut(elapsed, max_wait_minutes)
    THEN [return |-> TRUE, status |-> "Timeout", entry |-> NoEntry]
    ELSE IF Len(resp) > 0 /\ resp[1].status \in TerminalStatuses
    THEN [return |-> TRUE, status |-> resp[1].status, entry |-> resp[1].id]
    ELSE [return |-> FALSE, status |-> "None", entry |-> NoEntry]

\* the dataset refresh_multiple_datasets is at
Current == refresh_config[position].dataset_id

InitRefresh ==
    /\ DetectorInit({DefaultContaminationPct}) /\ TrendIdle /\ ConcIdle /\ CallIdle
    /\ FnIdle
    /\ access_token = "None"
    /\ history \in [Datasets -> InitialHistories]
    /\ unlisted = {}
    /\ rpc = "idle"
    /\ refresh_config = <<>>
    /\ position = 0
    /\ r_results = <<>>
    /\ max_wait_minutes = DefaultMaxWaitMinutes
    /\ check_interval = DefaultCheckInterval
    /\ elapsed = 0
    /\ wait_ret = "None"
    /\ source = <<>>
    /\ log = <<>>

\* manager.refresh_multiple_datasets(refresh_config), line 205
RefreshMultipleDatasets ==
    /\ rpc = "idle"
    /\ \E cfg \in RefreshConfigs : refresh_config' = cfg
    /\ position' = 1
    /\ r_results' = <<>>
    /\ rpc' = "loop"
    /\ UNCHANGED <<access_token, history, unlisted, max_wait_minutes, check_interval,
                   elapsed, wait_ret, source, log,
                   detVars, trendVars, concVars, callVars, fnVars>>

\* a loop that ends at the first trigger that fails
NextPositionStopOnFailure(success) == IF success THEN position + 1 ELSE Len(refresh_config) + 1

\* for config in refresh_config: the next one, whatever the last one gave
NextPosition(success) == position + 1

\* lines 208-221 when no wait follows: trigger_dataset_refresh, and the
\* result recorded; lines 208-218 when the trigger succeeded and wait is set:
\* trigger_dataset_refresh and the entry into wait_for_refresh_completion
TriggerDatasetRefresh ==
    /\ rpc = "loop"
    /\ position <= Len(refresh_config)
    /\ \E token_ok, post_ok \in BOOLEAN :
           LET success == HaveHeaders(token_ok) /\ post_ok
               wait == refresh_config[position].wait
           IN  /\ access_token' = TokenAfter(token_ok)
               /\ unlisted' = IF success THEN unlisted \cup {Current} ELSE unlisted
               /\ log' = Append(log, [call |-> "trigger_dataset_refresh",
                                       dataset_id |-> Current, gave |-> success])
               /\ IF success /\ wait
                  THEN /\ rpc' = "waiting"
                       /\ max_wait_minutes' = DefaultMaxWaitMinutes
                       /\ check_interval' = DefaultCheckInterval
                       /\ elapsed' = 0
                       /\ UNCHANGED <<position, r_results>>
                  ELSE /\ r_results' = Put(r_results, Current,
                                           IF success THEN "Triggered" ELSE "Failed")
                       /\ position' = NextPosition(success)
                       /\ UNCHANGED <<rpc, max_wait_minutes, check_interval, elapsed>>
    /\ UNCHANGED <<history, refresh_config, wait_ret, source,
                   detVars, trendVars, concVars, callVars, fnVars>>

\* one pass of the loop of wait_for_refresh_completion called on line 218;
\* when it returns, line 219 records what it returned
WaitForRefreshCompletion ==
    /\ rpc = "waiting"
    /\ \E token_ok, get_ok \in BOOLEAN :
           LET w == WaitLoopBody(GetRefreshHistory(Current, token_ok, get_ok))
           IN  IF w.return
               THEN /\ r_results' = Put(r_results, Current, w.status)
                    /\ source' = Put(source, Current, w.entry)
                    /\ wait_ret' = w.status
                    /\ log' = Append(log, [call |-> "wait_for_refresh_completion",
                                            dataset_id |-> Current, gave |-> w.status])
                    /\ position' = position + 1
                    /\ rpc' = "loop"
                    /\ UNCHANGED <<access_token, elapsed>>
               ELSE /\ elapsed' = elapsed + check_interval
                    /\ access_token' = TokenAfter(token_ok)
                    /\ UNCHANGED <<r_results, source, wait_ret, log, position, rpc>>
    /\ UNCHANGED <<history, unlisted, refresh_config, max_wait_minutes, check_interval,
                   detVars, trendVars, concVars, callVars, fnVars>>

\* line 223
ReturnResults ==
    /\ rpc = "loop"
    /\ position > Len(refresh_config)
    /\ rpc' = "done"
    /\ UNCHANGED <<access_token, history, unlisted, refresh_config, position, r_results,
                   max_wait_minutes, check_interval, elapsed, wait_ret, source, log,
                   detVars, trendVars, concVars, callVars, fnVars>>

\* the service lists the refresh it accepted
ServiceLists(d) ==
    /\ rpc = "waiting"
    /\ d = Current
    /\ d \in unlisted
    /\ unlisted' = unlisted \ {d}
    /\ history' = [history EXCEPT ![d] = <<[id |-> NewRefresh, status |-> "Unknown"]>> \o @]
    /\ UNCHANGED <<access_token, rpc, refresh_config, position, r_results,
                   max_wait_minutes, check_interval, elapsed, wait_ret, source, log,
                   detVars, trendVars, concVars, callVars, fnVars>>

\* the running refresh of d ends
ServiceFinishes(d) ==
    /\ rpc = "waiting"
    /\ d = Current
    /\ Len(history[d]) > 0
    /\ history[d][1].status = "Unknown"
    /\ \E s \in TerminalStatuses :
           history' = [history EXCEPT ![d][1].status = s]
    /\ UNCHANGED <<access_token, unlisted, rpc, refresh_config, position, r_results,
                   max_wait_minutes, check_interval, elapsed, wait_ret, source, log,
                   detVars, trendVars, concVars, callVars, fnVars>>

NextRefresh ==
    \/ RefreshMultipleDatasets
    \/ TriggerDatasetRefresh
    \/ WaitForRefreshCompletion
    \/ ReturnResults
    \/ \E d \in Datasets : ServiceLists(d)
    \/ \E d \in Datasets : ServiceFinishes(d)

SpecRefresh == InitRefresh /\ [][NextRefresh]_vars

(***************************************************************************)
(* wait_for_refresh_completion called on its own, with any max_wait_minutes*)
(* and check_interval, on a dataset whose refresh is not listed yet, runs, *)
(* or ended earlier.  Time passes in time.sleep and, MaxRequestSeconds at  *)
(* a time, in the requests.  log holds the statuses the passes of the loop *)
(* have read, each once ("none" for an empty answer).                      *)
(***************************************************************************)
WaitMinutes == 0..MaxWaitMinutes

CheckIntervals == {0, 20, DefaultCheckInterval}

WaitHistories ==
    InitialHistories \cup {<<[id |-> NewRefresh, status |-> "Unknown"]>>}

InitWait ==
    /\ DetectorInit({DefaultContaminationPct}) /\ TrendIdle /\ ConcIdle /\ CallIdle
    /\ FnIdle
    /\ access_token \in {"None", "token"}
    /\ \E d \in Datasets :
           /\ refresh_config = <<[dataset_id |-> d, wait |-> TRUE]>>
           /\ \E h \in WaitHistories :
                  history = [e \in Datasets |-> IF e = d THEN h ELSE <<>>]
           /\ unlisted \in {{}, {d}}
    /\ rpc = "idle"
    /\ position = 1
    /\ r_results = <<>>
    /\ max_wait_minutes = DefaultMaxWaitMinutes
    /\ check_interval = DefaultCheckInterval
    /\ elapsed = 0
    /\ wait_ret = "None"
    /\ source = <<>>
    /\ log = <<>>

\* manager.wait_for_refresh_completion(workspace_id, dataset_id,
\* max_wait_minutes, check_interval), lines 170-173
CallWaitForRefreshCompletion ==
    /\ rpc = "idle"
    /\ \E m \in WaitMinutes, c \in CheckIntervals :
           /\ max_wait_minutes' = m
           /\ check_interval' = c
    /\ elapsed' = 0
    /\ rpc' = "waiting"
    /\ UNCHANGED <<access_token, history, unlisted, refresh_config, position, r_results,
                   wait_ret, source, log,
                   detVars, trendVars, concVars, callVars, fnVars>>

Observed(resp) == IF Len(resp) > 0 THEN resp[1].status ELSE "none"

Noted(obs) == IF \E k \in 1..Len(log) : log[k] = obs THEN log ELSE Append(log, obs)

\* one pass of the loop, lines 176-192
WaitPass ==
    /\ rpc = "waiting"
    /\ \E token_ok, get_ok \in BOOLEAN :
           LET resp == GetRefreshHistory(Current, token_ok, get_ok)
               w == WaitLoopBody(resp)
           IN  /\ IF w.return
                  THEN /\ wait_ret' = w.status
                       /\ rpc' = "returned"
                       /\ UNCHANGED elapsed
                  ELSE /\ elapsed' = elapsed + check_interval
                       /\ UNCHANGED <<wait_ret, rpc>>
               /\ IF TimedOut(elapsed, max_wait_minutes)
                  THEN UNCHANGED <<access_token, log>>
                  ELSE /\ access_token' = TokenAfter(token_ok)
                       /\ log' = Noted(Observed(resp))
    /\ UNCHANGED <<history, unlisted, refresh_config, position, r_results,
                   max_wait_minutes, check_interval, source,
                   detVars, trendVars, concVars, callVars, fnVars>>

\* time passes while a request is made
Tick ==
    /\ rpc = "waiting"
    /\ ~TimedOut(elapsed, max_wait_minutes)
    /\ elapsed' = elapsed + MaxRequestSeconds
    /\ UNCHANGED <<access_token, history, unlisted, rpc, refresh_config, position,
                   r_results, max_wait_minutes, check_interval, wait_ret, source, log,
                   detVars, trendVars, concVars, callVars, fnVars>>

NextWait ==
    \/ CallWaitForRefreshCompletion
    \/ WaitPass
    \/ Tick
    \/ \E d \in Datasets : ServiceLists(d)
    \/ \E d \in Datasets : ServiceFinishes(d)

\* the loop runs and the clock advances; the service owes nothing
SpecWait == InitWait /\ [][NextWait]_vars /\ WF_vars(WaitPass) /\ WF_vars(Tick)

(***************************************************************************)
(* Vocabulary of the properties.                                           *)
(***************************************************************************)
Range(s) == {s[k] : k \in 1..Len(s)}

\* detect_all has returned a table
Returned == op = "detect_all" /\ outcome = "returned"

ConsensusFlag(df, i) == df.flag[ConsensusName][i]

\* the flag columns one run of detect_all writes
ProducedFlagColumns(cols, date) ==
    {IfFlagName} \cup {ZscoreFlagName(c) : c \in Range(cols)}
        \cup {IqrFlagName(c) : c \in Range(cols)}
        \cup (IF date # "None" THEN {MaFlagName(c) : c \in Range(cols)} ELSE {})

\* the detection method a flag column belongs to
Method(name) == name[3]

AllMethods == {"if", "zscore", "iqr", "ma"}

\* the methods whose flag is true for row i
MethodsFlagging(df, i) ==
    {Method(c) : c \in {d \in DOMAIN df.flag : d # ConsensusName /\ df.flag[d][i]}}

\* the detectors (a method on its column, the forest on all) that can
\* decide row i in a run on cols
ApplicableDetectors(df, cols, date, i) ==
    {IfFlagName}
        \cup {ZscoreFlagName(c) : c \in {d \in Range(cols) : ZscoreApplicable(df.num[d], i)}}
        \cup {IqrFlagName(c) : c \in {d \in Range(cols) : IqrApplicable(df.num[d], i)}}
        \cup {MaFlagName(c) : c \in {d \in Range(cols) :
                    date # "None" /\ WindowFull(df.num[d], DefaultWindow, i)}}

\* the methods a run of detect_all on cols runs
MethodsRun(cols, date) ==
    {"if"} \cup (IF cols # <<>> THEN {"zscore", "iqr"} ELSE {})
        \cup (IF cols # <<>> /\ date # "None" THEN {"ma"} ELSE {})

\* the methods a summary names as not run
NotRunRecorded(sm) == IF "not_run" \in DOMAIN sm THEN sm.not_run ELSE {}

(***************************************************************************)
(* C1: after detect_all a row's is_anomaly_consensus is true exactly when  *)
(* its anomaly_count is at least 2, whatever columns and detectors ran.    *)
(***************************************************************************)
C1_ConsensusIffCountAtLeastTwo ==
    Returned =>
        \A i \in Rows(result) : ConsensusFlag(result, i) <=> result.count[i] >= 2

C1_Witness ==
    /\ Returned
    /\ Len(numeric_columns) = 2
    /\ date_column = "Date"
    /\ \E i \in Rows(result) : result.count[i] >= 2 /\ ConsensusFlag(result, i)
    /\ \E j \in Rows(result) : result.count[j] = 1 /\ ~ConsensusFlag(result, j)

(***************************************************************************)
(* C2: after detect_all a row's anomaly_count is the number of the flag    *)
(* columns this run produced that are true for the row.                    *)
(***************************************************************************)
C2_CountIsProducedFlags ==
    Returned =>
        \A i \in Rows(result) :
            result.count[i] =
                Cardinality({c \in ProducedFlagColumns(numeric_columns, date_column) :
                                result.flag[c][i]})

(***************************************************************************)
(* C3: a row with is_anomaly_consensus true is flagged by at least two     *)
(* different detection methods.                                            *)
(***************************************************************************)
C3_ConsensusNeedsTwoMethods ==
    Returned =>
        \A i \in Rows(result) :
            ConsensusFlag(result, i) => Cardinality(MethodsFlagging(result, i)) >= 2

(***************************************************************************)
(* C4: a row with is_anomaly_consensus true has at least two detectors     *)
(* applicable to it.                                                       *)
(***************************************************************************)
C4_ConsensusNeedsTwoApplicable ==
    Returned =>
        \A i \in Rows(result) :
            ConsensusFlag(result, i) =>
                Cardinality(ApplicableDetectors(result, numeric_columns,
                                                date_column, i)) >= 2

(***************************************************************************)
(* C5, as amended: detect_moving_average_deviation flags no row before the *)
(* trailing window is full, that is no row at a position below `window`    *)
(* (the row that completes the first window, with window - 1 rows before   *)
(* it, can be flagged); in detect_all such rows get no moving-average vote.*)
(***************************************************************************)
C5_NoFlagBeforeWindowFull ==
    /\ (op = "detect_ma" /\ outcome = "returned") =>
            \A i \in Rows(result) :
                i < window => ~result.flag[MaFlagName(column)][i]
    /\ (Returned /\ date_column # "None") =>
            \A c \in Range(numeric_columns) : \A i \in Rows(result) :
                i < DefaultWindow => ~result.flag[MaFlagName(c)][i]

C5_Witness ==
    /\ op = "detect_ma"
    /\ outcome = "returned"
    /\ window >= 2
    /\ NRows(result) > window
    /\ \E i \in Rows(result) : result.flag[MaFlagName(column)][i]

(***************************************************************************)
(* C5, as claimed: no row is flagged until `window` rows precede it.       *)
(***************************************************************************)
C5_NoFlagUntilWindowPriorPoints ==
    (op = "detect_ma" /\ outcome = "returned") =>
        \A i \in Rows(result) :
            i - 1 < window => ~result.flag[MaFlagName(column)][i]

(***************************************************************************)
(* C6: a detector that fails during detect_all does not stop it:           *)
(* detect_all still returns a table with vote counts and consensus.        *)
(***************************************************************************)
C6_DetectorFailureIsolated ==
    (op = "detect_all" /\ failed # "none") =>
        /\ outcome = "returned"
        /\ result # Null
        /\ ConsensusName \in Columns(result)

(***************************************************************************)
(* C7: the summary names every detection method that did not run.          *)
(***************************************************************************)
C7_SummaryRecordsMethodsNotRun ==
    (Returned /\ summary # Null) =>
        (AllMethods \ MethodsRun(numeric_columns, date_column))
            \subseteq NotRunRecorded(summary)

(***************************************************************************)
(* C8: in analyze_sales_trends a forecast strategy that fails leaves its   *)
(* own result None and the other two strategies still complete and appear  *)
(* in the report.                                                          *)
(***************************************************************************)
C8_ForecastStrategiesIsolated ==
    (tpc \in {"returned", "raised"} /\ strategy_failed # {}) =>
        /\ tpc = "returned"
        /\ \A st \in Strategies :
               /\ st \in DOMAIN results
               /\ results[st] = "None" <=> st \in strategy_failed

(***************************************************************************)
(* C9: the summary of a detect_all result has total_records = the number   *)
(* of rows, consensus_anomalies = the number of consensus rows, and        *)
(* method_counts with exactly one entry per detection-method flag column,  *)
(* the number of rows that column flags.                                   *)
(***************************************************************************)
C9_SummaryCounts ==
    (Returned /\ summary # Null) =>
        /\ summary.total_records = NRows(result)
        /\ summary.consensus_anomalies =
               Cardinality({i \in Rows(result) : ConsensusFlag(result, i)})
        /\ DOMAIN summary.method_counts =
               {c \in DOMAIN result.flag : Method(c) \in AllMethods}
        /\ \A c \in DOMAIN summary.method_counts :
               summary.method_counts[c] =
                   Cardinality({i \in Rows(result) : result.flag[c][i]})

(***************************************************************************)
(* C10: two analyses that run concurrently, each on its own detector, get  *)
(* under every interleaving the flags and scores they get when run alone.  *)
(***************************************************************************)
C10_ConcurrentAsAlone ==
    \A k \in DOMAIN cpc :
        cpc[k] = "done" => out[k] = AloneDetectIsolationForest(batch[k], contamination)

C10_Witness ==
    /\ DOMAIN cpc = Analyses
    /\ \A k \in Analyses : cpc[k] = "done" /\ overlap[k]
    /\ out[1] # out[2]

(***************************************************************************)
(* C11: what detect_isolation_forest returns for a batch is what a fresh   *)
(* detector of the same contamination returns for it, whatever was called  *)
(* on the instance before, and is what every earlier call on the same      *)
(* batch returned.                                                         *)
(***************************************************************************)
C11_DeterminedByBatchAndConfiguration ==
    (last_call # Null /\ last_call.name = "detect_isolation_forest"
        /\ last_ret.kind = "returned") =>
        LET b == last_call.data.num[last_call.column]
        IN  /\ last_ret.value = AloneDetectIsolationForest(b, d_contamination)
            /\ b \in DOMAIN earlier => earlier[b] = last_ret.value

C11_Witness ==
    /\ last_call # Null
    /\ last_call.name = "detect_isolation_forest"
    /\ last_ret.kind = "returned"
    /\ earlier # <<>>
    /\ last_call.data.num[last_call.column] \notin DOMAIN earlier
    /\ d_scaler = ScalerFitOn(Prepare(last_call.data.num[last_call.column]))

(***************************************************************************)
(* C12: detect_isolation_forest on a batch with fewer than 2 usable rows   *)
(* raises InsufficientDataError.                                           *)
(***************************************************************************)
C12_TooFewUsableRowsRejected ==
    (last_call # Null /\ last_call.name = "detect_isolation_forest"
        /\ Cardinality(Present(last_call.data.num[last_call.column])) < 2) =>
        /\ last_ret.kind = "raised"
        /\ last_ret.error = "InsufficientDataError"

(***************************************************************************)
(* C13: no call on a detector constructed with a contamination outside     *)
(* (0, 1), and no detect_moving_average_deviation call with a window <= 0, *)
(* returns a result: each raises ConfigurationError.                       *)
(***************************************************************************)
C13_InvalidHyperParameterRejected ==
    (last_call # Null
        /\ \/ d_contamination <= 0
           \/ d_contamination >= 100
           \/ /\ last_call.name = "detect_moving_average_deviation"
              /\ last_call.window <= 0) =>
        /\ last_ret.kind = "raised"
        /\ last_ret.error = "ConfigurationError"

(***************************************************************************)
(* C14: detect_zscore and detect_iqr return on every table; on a column    *)
(* whose present values are all equal neither flags a row, and detect_     *)
(* zscore flags no row whose value is missing.                             *)
(***************************************************************************)
C14_ZeroVarianceNoFlags ==
    (last_call # Null /\ last_call.name \in {"detect_zscore", "detect_iqr"}) =>
        LET col == last_call.data.num[last_call.column]
            constant == \A i, j \in Present(col) : col[i] = col[j]
            flagname == IF last_call.name = "detect_zscore"
                        THEN ZscoreFlagName(last_call.column)
                        ELSE IqrFlagName(last_call.column)
        IN  /\ last_ret.kind = "returned"
            /\ \A i \in 1..Len(col) :
                   (constant \/ (last_call.name = "detect_zscore" /\ col[i] = NaN))
                       => ~last_ret.value.flag[flagname][i]

C14_Witness ==
    /\ last_call # Null
    /\ last_call.name = "detect_zscore"
    /\ last_ret.kind = "returned"
    /\ LET col == last_call.data.num[last_call.column]
       IN  /\ Cardinality(Present(col)) >= 2
           /\ Present(col) # 1..Len(col)
           /\ \A i, j \in Present(col) : col[i] = col[j]

C16_ScalingKeepsDirection ==
    (fn = "detect_trend_direction" /\ how # Null /\ how.kind = "scaled"
        /\ ret.kind = "returned" /\ ret2.kind = "returned") =>
        ret2.value.direction = ret.value.direction

(***************************************************************************)
(* C17: the direction of the negated series is Downward for Upward, Upward *)
(* for Downward and Stable for Stable.                                     *)
(***************************************************************************)
C17_NegationFlipsDirection ==
    (fn = "detect_trend_direction" /\ how # Null /\ how.kind = "negated"
        /\ ret.kind = "returned") =>
        /\ ret2.kind = "returned"
        /\ ret.value.direction = "Upward" => ret2.value.direction = "Downward"
        /\ ret.value.direction = "Downward" => ret2.value.direction = "Upward"
        /\ ret.value.direction = "Stable" => ret2.value.direction = "Stable"

C17_Witness ==
    /\ fn = "detect_trend_direction"
    /\ how # Null
    /\ how.kind = "negated"
    /\ ret.kind = "returned"
    /\ ret.value.direction = "Upward"
    /\ ret2.kind = "returned"
    /\ ret2.value.direction = "Downward"

(***************************************************************************)
(* C18: calculate_growth_metrics gives yoy_growth and cagr None for fewer  *)
(* than 365 points, and both a positive number for at least 365 points of  *)
(* an increasing series.                                                   *)
(***************************************************************************)
C18_GrowthNullOrPositive ==
    (fn = "calculate_growth_metrics" /\ ret.kind = "returned") =>
        LET n == Len(arg)
            increasing == \A i \in 1..(n - 1) : arg[i] < arg[i + 1]
            positive(x) == x.kind \in {"number", "inf"} /\ x.sign = 1
        IN  /\ n < 365 => (ret.value.yoy_growth = None /\ ret.value.cagr = None)
            /\ (n >= 365 /\ increasing) =>
                   (positive(ret.value.yoy_growth) /\ positive(ret.value.cagr))

(***************************************************************************)
(* C19: calculate_growth_metrics gives a cagr that is not null (None or    *)
(* nan) only for at least 365 points and a first value above 0.            *)
(***************************************************************************)
C19_CagrNeedsPositiveFirstValue ==
    (fn = "calculate_growth_metrics" /\ ret.kind = "returned"
        /\ ret.value.cagr.kind \notin {"None", "nan"}) =>
        (Len(arg) >= 365 /\ arg[1] > 0)

(***************************************************************************)
(* C20: a failing stationarity test is not fatal: test_stationarity gives  *)
(* None and never raises, so analyze_sales_trends raises only where the    *)
(* regression does, and a report whose stationarity is None has its trend, *)
(* seasonality, growth, peak/trough and forecast fields.                   *)
(***************************************************************************)
C20_StationarityFailureNotFatal ==
    /\ tpc = "raised" => (FitFails(series) \/ PredictFails(forecast_days))
    /\ (tpc \notin {"idle", "trend", "seasonality", "growth", "peaks", "stationarity",
                    "raised"}
            /\ results["stationarity"] = "None") =>
           \A key \in {"trend", "seasonality", "growth_metrics", "peaks_troughs"} :
               key \in DOMAIN results /\ results[key] = "computed"
    /\ (tpc = "returned" /\ results["stationarity"] = "None") =>
           /\ Strategies \subseteq DOMAIN results
           /\ results["forecast_linear"] = "computed"

C20_Witness ==
    /\ tpc = "returned"
    /\ results["stationarity"] = "None"
    /\ Len(series) >= 2
    /\ \A i \in 1..Len(series) : series[i] = series[1]
    /\ results["forecast_linear"] = "computed"

C22_LinearForecastAlwaysSucceeds ==
    (fn = "forecast_linear_trend" /\ Len(arg) >= 2) =>
        /\ ret.kind = "returned"
        /\ Len(ret.value.forecast) = par.steps
        /\ \A d \in -10..10 :
               arg = Arithmetic(Len(arg), arg[1], d) =>
                   \A k \in 1..par.steps :
                       ret.value.forecast[k].num =
                           (arg[Len(arg)] + k * d) * ret.value.forecast[k].den

(***************************************************************************)
(* C23: identify_peaks_and_troughs called without a prominence keeps the   *)
(* peaks whose prominence is at least 10% of the value range of the        *)
(* series (max - min), and its troughs are the peaks so found in the       *)
(* negated series.                                                         *)
(***************************************************************************)
C23_DefaultProminenceTenthOfRange ==
    (fn = "identify_peaks_and_troughs" /\ ~par.given /\ ret.kind = "returned") =>
        LET pr == RangeProminence(arg)
        IN  /\ ret.value.peak_indices = FindPeaks(arg, pr.num, pr.den)
            /\ ret.value.trough_indices = FindPeaks(Negated(arg), pr.num, pr.den)

(***************************************************************************)
(* C24: detect_seasonality computes the autocorrelation at the lags        *)
(* 1..min(max_lag, n - 1), n the length of the series: at lag max_lag      *)
(* itself whenever max_lag <= n - 1.                                       *)
(***************************************************************************)
C24_LagsUpToMaxLag ==
    fn = "detect_seasonality" =>
        LET n == Len(arg)
            last == Min2(par.max_lag, n - 1)
        IN  /\ loc.lags = [i \in 1..last |-> i]
            /\ Len(loc.autocorr) = Len(loc.lags)
            /\ (par.max_lag >= 1 /\ par.max_lag <= n - 1) =>
                   \E k \in 1..Len(loc.lags) : loc.lags[k] = par.max_lag

(***************************************************************************)
(* C25: detect_seasonality returns has_seasonality false and               *)
(* primary_period None exactly when its autocorrelations have no peak of   *)
(* height at least 0.5; otherwise has_seasonality is true and              *)
(* primary_period is the first such peak's index + 1, its lag, and that of *)
(* no later peak.                                                          *)
(***************************************************************************)
C25_PrimaryPeriodFromFirstPeak ==
    (fn = "detect_seasonality" /\ ret.kind = "returned") =>
        LET ac == loc.autocorr
            higher(k, j) == CorrLess(ac[j], ac[k])
            IsPeak(k) ==
                /\ k > 1
                /\ k < Len(ac)
                /\ 2 * ac[k].c * 2 * ac[k].c >= ac[k].a * ac[k].b
                /\ ac[k].c > 0
                /\ \E l \in 2..k : \E r \in k..(Len(ac) - 1) :
                       /\ \A j \in l..r : ~higher(j, k) /\ ~higher(k, j) /\ ~ac[j].nan
                       /\ higher(l, l - 1)
                       /\ higher(r, r + 1)
                       /\ k = (l + r) \div 2
            found == {k \in 1..Len(ac) : IsPeak(k)}
            v == ret.value
        IN  /\ (~v.has_seasonality /\ v.primary_period.kind = "None") <=> found = {}
            /\ found # {} =>
                   /\ v.has_seasonality
                   /\ v.primary_period.kind = "int"
                   /\ v.primary_period.value - 1 \in {k - 1 : k \in found}
                   /\ \A k \in found : v.primary_period.value - 1 <= k - 1
                   /\ v.primary_period.value = loc.lags[v.primary_period.value]

C25_Witness ==
    /\ fn = "detect_seasonality"
    /\ ret.kind = "returned"
    /\ ret.value.has_seasonality
    /\ Len(ret.value.peak_lags) >= 2
    /\ ret.value.primary_period.value = 2
    /\ ret.value.peak_lags[2] = 4

(***************************************************************************)
(* C26: a terminal status refresh_multiple_datasets records for a dataset  *)
(* it waited for is the status of the refresh it just triggered, never     *)
(* that of an earlier refresh the history still lists first.               *)
(***************************************************************************)
C26_RecordedStatusIsOfTriggeredRefresh ==
    \A d \in DOMAIN source :
        r_results[d] \in TerminalStatuses => source[d] = NewRefresh

C27_WaitReturns ==
    /\ (rpc = "waiting") ~> (rpc = "returned")
    /\ [](rpc = "returned" =>
             /\ wait_ret \in TerminalStatuses \cup {"Timeout"}
             /\ wait_ret = "Timeout" =>
                    /\ elapsed > max_wait_minutes * 60
                    /\ \A k \in 1..Len(log) : log[k] \notin TerminalStatuses)

C27_Witness ==
    /\ rpc = "returned"
    /\ wait_ret = "Timeout"
    /\ max_wait_minutes = 1
    /\ check_interval = 0
    /\ \E k \in 1..Len(log) : log[k] = "Unknown"
    /\ \E k \in 1..Len(log) : log[k] = "none"

(***************************************************************************)
(* C29: detect_all on a table that carries the columns of an earlier       *)
(* detect_all run gives every row the anomaly_count and the                *)
(* is_anomaly_consensus that the same call gives on the table without      *)
(* those columns.                                                          *)
(***************************************************************************)
C29_RerunCountsAsOnOriginal ==
    (Returned /\ runs >= 2) =>
        LET original == [data EXCEPT !.flag = <<>>, !.aux = {}, !.count = <<>>]
            key == ForestKey(CopyAndSort(original, date_column), numeric_columns)
            fresh == DetectAll(original, numeric_columns, date_column, contamination,
                               fitted[key]).df
        IN  /\ result.count = fresh.count
            /\ result.flag[ConsensusName] = fresh.flag[ConsensusName]

(***************************************************************************)
(* C30: when an analysis entry point returns, the table the caller passed  *)
(* in has the columns, the values and the row order it had before the      *)
(* call.  (detect_all and the detect_* methods work on data.copy(); the    *)
(* formula is about analyze_sales_trends.)                                 *)
(***************************************************************************)
C30_InputTableUnchanged ==
    tpc = "returned" => caller_df = passed

====
